---- MODULE Spec2Model ----
(***************************************************************************)
(* Concurrent crawl orchestrator of src/main.py: the frontier (url_queue), *)
(* the visited set, the three result tables, the two locks, the worker     *)
(* loop, the checkpoint file written by save_state and read by load_state, *)
(* and the module-level orchestrator.  A process interruption followed by  *)
(* a fresh process that resumes from the checkpoint file is one action.    *)
(***************************************************************************)
EXTENDS Integers, Sequences, FiniteSets, TLC

\* ---------------------------------------------------------------- bounds
\* max_pages (line 14, 20000), max_depth (line 15, 16) and the checkpoint
\* interval (line 152, 100), scaled down so that the budget, the depth limit
\* and the periodic checkpoint are all reached on the small webs below.
max_pages == 3
max_depth == 1
CheckpointInterval == 2
\* num_threads (line 17, 8): the worker threads of the model.
num_threads == 2
\* How many times the process may be interrupted and resumed.
MaxRestarts == 1

\* ---------------------------------------------------------------- URLs
\* A host name is a sequence of character groups, so that str.endswith is a
\* suffix test on it.  A URL is its network location and its path.
LATIMES == <<"latimes.com">>
WWW == <<"www.">> \o LATIMES
NOTLAT == <<"not">> \o LATIMES
EXTERNAL == <<"external.example.com">>

U(host, path) == [netloc |-> host, path |-> path]

root_url == U(WWW, "/")

\* A raw href is relative (empty network location) or absolute.
Rel(path) == [netloc |-> <<>>, path |-> path]

urljoin(base, href) ==
    IF href.netloc = <<>>
    THEN [netloc |-> base.netloc, path |-> href.path]
    ELSE href

EndsWith(s, suffix) ==
    /\ Len(s) >= Len(suffix)
    /\ SubSeq(s, Len(s) - Len(suffix) + 1, Len(s)) = suffix

StartsWith(s, prefix) ==
    /\ Len(s) >= Len(prefix)
    /\ SubSeq(s, 1, Len(prefix)) = prefix

Indicator(abs_url) ==
    IF EndsWith(abs_url.netloc, LATIMES) THEN "OK" ELSE "N_OK"

\* ---------------------------------------------------------------- the web
\* Content types are sequences of character groups; a Content-Type header is
\* the sequence of its ';'-separated parts.
TEXT_HTML == <<"text/html">>
allowed_types ==
    { <<"application/pdf">>, <<"application/msword">>, <<"image/jpeg">>,
      <<"image/png">>, <<"image/gif">> }

TransportError == [kind |-> "error"]
\* The status "Error" of line 108, a value no HTTP status code equals.
Error == -1
Page(status, header, size, hrefs) ==
    [kind |-> "response", status |-> status, header |-> header,
     size |-> size, hrefs |-> hrefs]

\* The webs the crawl is run against.  "news": the root page repeats a
\* link and links to a page whose fetch fails and to a host whose name only
\* ends like the site's; /a links back to the root and one level deeper.
\* "files": the root page links to a PDF, to another host and to a style
\* sheet.
Sites == { "news", "files" }

\* requests.get on a web: a fixed function of the URL.
Web(site, u) ==
    CASE site = "news" /\ u = root_url ->
           Page(200, <<TEXT_HTML, <<" charset=utf-8">> >>, 5,
                << Rel("/a"), Rel("/a"), Rel("/b"), U(NOTLAT, "/n") >>)
      [] site = "news" /\ u = U(WWW, "/a") ->
           Page(200, <<TEXT_HTML>>, 2, << U(WWW, "/"), Rel("/c") >>)
      [] site = "news" /\ u = U(WWW, "/b") -> TransportError
      [] site = "news" /\ u = U(WWW, "/c") ->
           Page(200, <<TEXT_HTML>>, 1, << Rel("/d") >>)
      [] site = "news" /\ u = U(WWW, "/d") ->
           Page(301, << >>, 0, << >>)
      [] site = "files" /\ u = root_url ->
           Page(200, <<TEXT_HTML>>, 2,
                << Rel("/p"), U(EXTERNAL, "/x"), Rel("/s") >>)
      [] site = "files" /\ u = U(WWW, "/p") ->
           Page(200, << <<"application/pdf">> >>, 9, << >>)
      [] site = "files" /\ u = U(WWW, "/s") ->
           Page(200, << <<"text/css">>, <<" charset=utf-8">> >>, 3, << >>)
      [] OTHER -> Page(404, <<TEXT_HTML>>, 0, << >>)

\* content_type_full.split(";")[0].strip()
ContentType(header) == IF header = << >> THEN << >> ELSE header[1]

IsHtml(content_type) == StartsWith(content_type, TEXT_HTML)

\* ---------------------------------------------------------------- state
Workers == 1 .. num_threads
NoWorker == 0

NoEntry == [url |-> root_url, depth |-> -1]
NoState == [kind |-> "absent"]
Truncated == [kind |-> "truncated"]

VARIABLES
    visited,        \* set of URLs (line 46)
    url_queue,      \* the queue's deque of (url, depth) entries (line 53)
    unfinished,     \* the queue's unfinished_tasks counter
    fetch_data,     \* sequence of <<url, status>> (line 43)
    visit_data,     \* sequence of <<url, size, outlinks, content type>> (line 44)
    urls_data,      \* sequence of <<url, indicator>> (line 45)
    visited_lock,   \* holder of visited_lock, or NoWorker (line 49)
    data_lock,      \* holder of data_lock, or NoWorker (line 50)
    pc,             \* per worker: where it is in worker()
    cur,            \* per worker: (current_url, depth) of the dequeued entry
    tags,           \* per worker: the hrefs of soup.find_all not yet iterated
    abs_url,        \* per worker: abs_url of the tag being handled
    outlinks,       \* per worker: the set outlinks of the current page
    queue_copy,     \* state["queue"] of the save_state call under way (line 59)
    state_file,     \* content of STATE_FILE
    orch,           \* where the module-level code is
    site,           \* the web the crawl runs against
    restarts        \* how many times the process was interrupted and resumed

vars == << visited, url_queue, unfinished, fetch_data, visit_data, urls_data,
           visited_lock, data_lock, pc, cur, tags, abs_url, outlinks,
           queue_copy, state_file, orch, site, restarts >>

tables == << fetch_data, visit_data, urls_data >>
locals == << cur, tags, abs_url, outlinks >>
disk == << queue_copy, state_file >>
env == << site, restarts >>

\* ---------------------------------------------------------------- helpers
Range(s) == { s[i] : i \in 1 .. Len(s) }

\* Number of records of a table whose first field is the URL u.
RECURSIVE CountUrl(_, _)
CountUrl(table, u) ==
    IF table = << >> THEN 0
    ELSE (IF Head(table)[1] = u THEN 1 ELSE 0) + CountUrl(Tail(table), u)

\* The payload save_state pickles (lines 57-63): the queue is copied when the
\* dict is built, the other four objects are the live ones at dump time.
Snapshot(q) ==
    [kind |-> "state", visited |-> visited, queue |-> q,
     fetch_data |-> fetch_data, visit_data |-> visit_data,
     urls_data |-> urls_data]

\* ---------------------------------------------------------------- start-up
\* Lines 76-86: what the module-level code takes from load_state's result.
Boot(state) ==
    IF state.kind = "state"
    THEN [visited |-> state.visited, queue |-> state.queue,
          fetch_data |-> state.fetch_data, visit_data |-> state.visit_data,
          urls_data |-> state.urls_data]
    ELSE [visited |-> {}, queue |-> << [url |-> root_url, depth |-> 0] >>,
          fetch_data |-> << >>, visit_data |-> << >>, urls_data |-> << >>]

Init ==
    /\ site \in Sites
    /\ state_file = NoState
    /\ restarts = 0
    /\ visited = Boot(NoState).visited
    /\ url_queue = Boot(NoState).queue
    /\ unfinished = Len(Boot(NoState).queue)
    /\ fetch_data = Boot(NoState).fetch_data
    /\ visit_data = Boot(NoState).visit_data
    /\ urls_data = Boot(NoState).urls_data
    /\ visited_lock = NoWorker
    /\ data_lock = NoWorker
    /\ pc = [w \in Workers |-> "get"]
    /\ cur = [w \in Workers |-> NoEntry]
    /\ tags = [w \in Workers |-> << >>]
    /\ abs_url = [w \in Workers |-> root_url]
    /\ outlinks = [w \in Workers |-> {}]
    /\ queue_copy = << >>
    /\ orch = "join_queue"

\* ---------------------------------------------------------------- locks
\* A lock that lets everybody in.
LockIgnored(lock) == TRUE

\* threading.Lock: `with lock:` enters only when nobody holds the lock.
LockFree(lock) == lock = NoWorker

\* ---------------------------------------------------------------- worker
\* Lines 98, 111 and 157: url_queue.task_done() on the counter of unfinished
\* tasks.
task_done_lost(n) == n

\* Lines 98, 111 and 157 with task_done called twice for one dequeue.
task_done_twice(n) == n - 2

task_done(n) == n - 1

\* Line 97 without its membership test.
ClaimRejectedNoDedup(url, depth) ==
    \/ depth > max_depth
    \/ Cardinality(visited) >= max_pages

\* Line 97 without its depth test.
ClaimRejectedNoDepth(url, depth) ==
    \/ url \in visited
    \/ Cardinality(visited) >= max_pages

\* Line 97: the entry is dropped instead of claimed.
ClaimRejected(url, depth) ==
    \/ url \in visited
    \/ depth > max_depth
    \/ Cardinality(visited) >= max_pages

\* Line 92: url_queue.get returns the oldest entry.
Get(w) ==
    /\ pc[w] = "get"
    /\ url_queue # << >>
    /\ cur' = [cur EXCEPT ![w] = Head(url_queue)]
    /\ url_queue' = Tail(url_queue)
    /\ pc' = [pc EXCEPT ![w] = "claim"]
    /\ UNCHANGED << visited, unfinished, tables, visited_lock, data_lock,
                    tags, abs_url, outlinks, disk, orch, env >>

\* Lines 92-94: url_queue.get(timeout=10) raises Empty and the worker leaves
\* its loop.
Timeout(w) ==
    /\ pc[w] = "get"
    /\ url_queue = << >>
    /\ pc' = [pc EXCEPT ![w] = "exited"]
    /\ UNCHANGED << visited, url_queue, unfinished, tables, visited_lock,
                    data_lock, locals, disk, orch, env >>

\* Lines 96-99: under visited_lock, the test; a rejected entry is marked done
\* and the lock released.
ClaimTest(w) ==
    /\ pc[w] = "claim"
    /\ LockFree(visited_lock)
    /\ IF ClaimRejected(cur[w].url, cur[w].depth)
       THEN /\ unfinished' = task_done(unfinished)
            /\ pc' = [pc EXCEPT ![w] = "get"]
            /\ cur' = [cur EXCEPT ![w] = NoEntry]
            /\ UNCHANGED visited_lock
       ELSE /\ visited_lock' = w
            /\ pc' = [pc EXCEPT ![w] = "add"]
            /\ UNCHANGED << unfinished, cur >>
    /\ UNCHANGED << visited, url_queue, tables, data_lock, tags, abs_url,
                    outlinks, disk, orch, env >>

\* Line 100: visited.add, then the lock is released.
ClaimAdd(w) ==
    /\ pc[w] = "add"
    /\ visited' = visited \cup { cur[w].url }
    /\ visited_lock' = NoWorker
    /\ pc' = [pc EXCEPT ![w] = "fetch"]
    /\ UNCHANGED << url_queue, unfinished, tables, data_lock, locals, disk,
                    orch, env >>

\* Lines 103-106: requests.get returns a response or raises.
Fetch(w) ==
    /\ pc[w] = "fetch"
    /\ pc' = [pc EXCEPT ![w] =
                IF Web(site, cur[w].url).kind = "error" THEN "err_lock"
                ELSE "rec_lock"]
    /\ UNCHANGED << visited, url_queue, unfinished, tables, visited_lock,
                    data_lock, locals, disk, orch, env >>

\* Line 107.
ErrLock(w) ==
    /\ pc[w] = "err_lock"
    /\ LockFree(data_lock)
    /\ data_lock' = w
    /\ pc' = [pc EXCEPT ![w] = "err_append"]
    /\ UNCHANGED << visited, url_queue, unfinished, tables, visited_lock,
                    locals, disk, orch, env >>

\* Lines 109-110 with the append left out: a failed fetch leaves no record.
ErrAppendNoRecord(w) ==
    /\ pc[w] = "err_append"
    /\ data_lock' = NoWorker
    /\ pc' = [pc EXCEPT ![w] = "err_done"]
    /\ UNCHANGED << visited, url_queue, unfinished, tables, visited_lock,
                    locals, disk, orch, env >>

\* Line 108.
ErrAppend(w) ==
    /\ pc[w] = "err_append"
    /\ fetch_data' = Append(fetch_data, << cur[w].url, Error >>)
    /\ data_lock' = NoWorker
    /\ pc' = [pc EXCEPT ![w] = "err_done"]
    /\ UNCHANGED << visited, url_queue, unfinished, visit_data, urls_data,
                    visited_lock, locals, disk, orch, env >>

\* Lines 110-112 replaced by a retry: the URL is offered again.
ErrDoneRetry(w) ==
    /\ pc[w] = "err_done"
    /\ visited' = visited \ { cur[w].url }
    /\ url_queue' = Append(url_queue, cur[w])
    /\ pc' = [pc EXCEPT ![w] = "get"]
    /\ cur' = [cur EXCEPT ![w] = NoEntry]
    /\ UNCHANGED << unfinished, tables, visited_lock, data_lock,
                    tags, abs_url, outlinks, disk, orch, env >>

\* Lines 110-112: the politeness delay, task_done, continue.
ErrDone(w) ==
    /\ pc[w] = "err_done"
    /\ unfinished' = task_done(unfinished)
    /\ pc' = [pc EXCEPT ![w] = "get"]
    /\ cur' = [cur EXCEPT ![w] = NoEntry]
    /\ UNCHANGED << visited, url_queue, tables, visited_lock, data_lock,
                    tags, abs_url, outlinks, disk, orch, env >>

\* Line 114.
RecLock(w) ==
    /\ pc[w] = "rec_lock"
    /\ LockFree(data_lock)
    /\ data_lock' = w
    /\ pc' = [pc EXCEPT ![w] = "rec_append"]
    /\ UNCHANGED << visited, url_queue, unfinished, tables, visited_lock,
                    locals, disk, orch, env >>

\* Lines 117-149 with the content type test of line 124 left out.
AfterFetchAnyType(response) ==
    IF response.status = 200
    THEN IF IsHtml(ContentType(response.header)) /\ response.hrefs # << >>
         THEN "url_lock"
         ELSE "visit_lock"
    ELSE "ckpt"

\* Lines 117-149 without the test of line 117.
AfterFetchAnyStatus(response) ==
    IF \/ ContentType(response.header) \in allowed_types
       \/ IsHtml(ContentType(response.header))
    THEN IF IsHtml(ContentType(response.header)) /\ response.hrefs # << >>
         THEN "url_lock"
         ELSE "visit_lock"
    ELSE "ckpt"

\* Lines 117-127 and 143-149: where the worker goes after recording the
\* fetch of a response.
AfterFetch(response) ==
    IF response.status = 200
    THEN IF \/ ContentType(response.header) \in allowed_types
            \/ IsHtml(ContentType(response.header))
         THEN IF IsHtml(ContentType(response.header)) /\ response.hrefs # << >>
              THEN "url_lock"
              ELSE "visit_lock"
         ELSE "ckpt"
    ELSE "ckpt"

\* Line 115, then the branch of lines 117-127: for an HTML page the tags
\* with an href are found and outlinks starts empty.
RecAppend(w) ==
    LET response == Web(site, cur[w].url) IN
    /\ pc[w] = "rec_append"
    /\ fetch_data' = Append(fetch_data, << cur[w].url, response.status >>)
    /\ data_lock' = NoWorker
    /\ pc' = [pc EXCEPT ![w] = AfterFetch(response)]
    /\ tags' = [tags EXCEPT ![w] =
                  IF AfterFetch(response) = "url_lock" THEN response.hrefs
                  ELSE << >>]
    /\ outlinks' = [outlinks EXCEPT ![w] = {}]
    /\ UNCHANGED << visited, url_queue, unfinished, visit_data, urls_data,
                    visited_lock, cur, abs_url, disk, orch, env >>

\* Line 128: the loop goes to the next tag, or ends.
NextTag(rest) == IF rest = << >> THEN "visit_lock" ELSE "url_lock"

\* Lines 128-133: the next tag's href is resolved, added to outlinks, and
\* data_lock is taken.
UrlLock(w) ==
    /\ pc[w] = "url_lock"
    /\ LockFree(data_lock)
    /\ abs_url' = [abs_url EXCEPT ![w] = urljoin(cur[w].url, Head(tags[w]))]
    /\ outlinks' = [outlinks EXCEPT ![w] = @ \cup { abs_url'[w] }]
    /\ tags' = [tags EXCEPT ![w] = Tail(@)]
    /\ data_lock' = w
    /\ pc' = [pc EXCEPT ![w] = "url_append"]
    /\ UNCHANGED << visited, url_queue, unfinished, tables, visited_lock,
                    cur, disk, orch, env >>

\* Lines 134-135 with the block of lines 136-138 nested inside
\* `with data_lock:`, data_lock being kept.
UrlAppendKeepsLock(w) ==
    /\ pc[w] = "url_append"
    /\ urls_data' = Append(urls_data, << abs_url[w], Indicator(abs_url[w]) >>)
    /\ pc' = [pc EXCEPT ![w] =
                IF Indicator(abs_url[w]) = "OK" THEN "offer"
                ELSE NextTag(tags[w])]
    /\ UNCHANGED << visited, url_queue, unfinished, fetch_data, visit_data,
                    visited_lock, data_lock, locals, disk, orch, env >>

\* Lines 134-135.
UrlAppend(w) ==
    /\ pc[w] = "url_append"
    /\ urls_data' = Append(urls_data, << abs_url[w], Indicator(abs_url[w]) >>)
    /\ data_lock' = NoWorker
    /\ pc' = [pc EXCEPT ![w] =
                IF Indicator(abs_url[w]) = "OK" THEN "offer"
                ELSE NextTag(tags[w])]
    /\ UNCHANGED << visited, url_queue, unfinished, fetch_data, visit_data,
                    visited_lock, locals, disk, orch, env >>

\* Line 137: the link is put on the queue.
OfferAccepted(url) == url \notin visited

\* Lines 136-137: under visited_lock, the test.
OfferTest(w) ==
    /\ pc[w] = "offer"
    /\ LockFree(visited_lock)
    /\ IF OfferAccepted(abs_url[w])
       THEN /\ visited_lock' = w
            /\ pc' = [pc EXCEPT ![w] = "put"]
       ELSE /\ pc' = [pc EXCEPT ![w] = NextTag(tags[w])]
            /\ UNCHANGED visited_lock
    /\ UNCHANGED << visited, url_queue, unfinished, tables, data_lock,
                    locals, disk, orch, env >>

\* Line 138: url_queue.put, then the lock is released.
OfferPut(w) ==
    /\ pc[w] = "put"
    /\ url_queue' = Append(url_queue,
                           [url |-> abs_url[w], depth |-> cur[w].depth + 1])
    /\ unfinished' = unfinished + 1
    /\ visited_lock' = NoWorker
    /\ pc' = [pc EXCEPT ![w] = NextTag(tags[w])]
    /\ UNCHANGED << visited, tables, data_lock, locals, disk, orch,
                    env >>

\* Line 146.
VisitLock(w) ==
    /\ pc[w] = "visit_lock"
    /\ LockFree(data_lock)
    /\ data_lock' = w
    /\ pc' = [pc EXCEPT ![w] = "visit_append"]
    /\ UNCHANGED << visited, url_queue, unfinished, tables, visited_lock,
                    locals, disk, orch, env >>

\* Line 121 without lines 139: num_outlinks stays 0.
NumOutlinksUnset(content_type, links) == 0

\* Lines 121, 139 and 144: num_outlinks of the page.
NumOutlinks(content_type, links) ==
    IF IsHtml(content_type) THEN Cardinality(links) ELSE 0

\* Line 147.
VisitAppend(w) ==
    LET response == Web(site, cur[w].url) IN
    /\ pc[w] = "visit_append"
    /\ visit_data' = Append(visit_data,
            << cur[w].url, response.size,
               NumOutlinks(ContentType(response.header), outlinks[w]),
               ContentType(response.header) >>)
    /\ data_lock' = NoWorker
    /\ pc' = [pc EXCEPT ![w] = "ckpt"]
    /\ outlinks' = [outlinks EXCEPT ![w] = {}]
    /\ UNCHANGED << visited, url_queue, unfinished, fetch_data, urls_data,
                    visited_lock, cur, tags, abs_url, disk, orch, env >>

\* Line 152: the checkpoint is due.
CheckpointDue == Cardinality(visited) % CheckpointInterval = 0

\* Lines 151-153: under visited_lock, the test.
CkptTest(w) ==
    /\ pc[w] = "ckpt"
    /\ LockFree(visited_lock)
    /\ IF CheckpointDue
       THEN /\ visited_lock' = w
            /\ pc' = [pc EXCEPT ![w] = "save_open"]
       ELSE /\ pc' = [pc EXCEPT ![w] = "task_done"]
            /\ UNCHANGED visited_lock
    /\ UNCHANGED << visited, url_queue, unfinished, tables, data_lock,
                    locals, disk, orch, env >>

\* Lines 57-64 called from line 154: the state dict is built (the queue is
\* copied) and open(STATE_FILE, "wb") truncates the file.
SaveOpen(w) ==
    /\ pc[w] = "save_open"
    /\ queue_copy' = url_queue
    /\ state_file' = Truncated
    /\ pc' = [pc EXCEPT ![w] = "save_dump"]
    /\ UNCHANGED << visited, url_queue, unfinished, tables, visited_lock,
                    data_lock, locals, orch, env >>

\* Line 65 called from line 154: pickle.dump writes the payload; the with
\* blocks of lines 64 and 151 end.
SaveDump(w) ==
    /\ pc[w] = "save_dump"
    /\ state_file' = Snapshot(queue_copy)
    /\ queue_copy' = << >>
    /\ visited_lock' = NoWorker
    /\ pc' = [pc EXCEPT ![w] = "task_done"]
    /\ UNCHANGED << visited, url_queue, unfinished, tables, data_lock,
                    locals, orch, env >>

\* Lines 64-65 called from line 154 raise an I/O error: nothing in worker()
\* catches it, the with block of line 151 releases the lock and the thread
\* ends.  A failed open leaves the file as it was, a failed dump leaves it
\* truncated.
SaveFails(w) ==
    /\ pc[w] \in { "save_open", "save_dump" }
    /\ queue_copy' = << >>
    /\ visited_lock' = NoWorker
    /\ pc' = [pc EXCEPT ![w] = "crashed"]
    /\ UNCHANGED << visited, url_queue, unfinished, tables, data_lock,
                    locals, state_file, orch, env >>

\* Lines 156-157.
TaskDone(w) ==
    /\ pc[w] = "task_done"
    /\ unfinished' = task_done(unfinished)
    /\ pc' = [pc EXCEPT ![w] = "get"]
    /\ cur' = [cur EXCEPT ![w] = NoEntry]
    /\ UNCHANGED << visited, url_queue, tables, visited_lock, data_lock,
                    tags, abs_url, outlinks, disk, orch, env >>

\* ---------------------------------------------------------------- orchestrator
Ended(w) == pc[w] \in { "exited", "crashed" }

\* Line 166: url_queue.join() returns when no task is unfinished.
JoinQueue ==
    /\ orch = "join_queue"
    /\ unfinished = 0
    /\ orch' = "join_threads"
    /\ UNCHANGED << visited, url_queue, unfinished, tables, visited_lock,
                    data_lock, pc, locals, disk, env >>

\* Lines 167-168: every thread has ended.
JoinThreads ==
    /\ orch = "join_threads"
    /\ \A w \in Workers : Ended(w)
    /\ orch' = "save_open"
    /\ UNCHANGED << visited, url_queue, unfinished, tables, visited_lock,
                    data_lock, pc, locals, disk, env >>

\* Lines 57-64 called from line 170.
FinalSaveOpen ==
    /\ orch = "save_open"
    /\ queue_copy' = url_queue
    /\ state_file' = Truncated
    /\ orch' = "save_dump"
    /\ UNCHANGED << visited, url_queue, unfinished, tables, visited_lock,
                    data_lock, pc, locals, env >>

\* Line 65 called from line 170.
FinalSaveDump ==
    /\ orch = "save_dump"
    /\ state_file' = Snapshot(queue_copy)
    /\ queue_copy' = << >>
    /\ orch' = "export"
    /\ UNCHANGED << visited, url_queue, unfinished, tables, visited_lock,
                    data_lock, pc, locals, env >>

\* Lines 64-65 called from line 170 raise an I/O error: the process ends
\* with the traceback, before the CSV files are written.
FinalSaveFails ==
    /\ orch \in { "save_open", "save_dump" }
    /\ queue_copy' = << >>
    /\ orch' = "failed"
    /\ UNCHANGED << visited, url_queue, unfinished, tables, visited_lock,
                    data_lock, pc, locals, state_file, env >>

\* Lines 172-191: the three CSV files are written.
Export ==
    /\ orch = "export"
    /\ orch' = "done"
    /\ UNCHANGED << visited, url_queue, unfinished, tables, visited_lock,
                    data_lock, pc, locals, disk, env >>

\* ---------------------------------------------------------------- resume
\* Lines 68-74: load_state on the file's content; unpickling a truncated
\* file raises.
LoadRaises(content) == content.kind = "truncated"

\* The process is stopped at any point and a fresh process runs the module
\* from line 1: lines 43-53, then lines 76-86 on the checkpoint file, then
\* lines 160-164.
Restart ==
    /\ restarts < MaxRestarts
    /\ restarts' = restarts + 1
    /\ UNCHANGED site
    /\ visited_lock' = NoWorker
    /\ data_lock' = NoWorker
    /\ cur' = [w \in Workers |-> NoEntry]
    /\ tags' = [w \in Workers |-> << >>]
    /\ abs_url' = [w \in Workers |-> root_url]
    /\ outlinks' = [w \in Workers |-> {}]
    /\ queue_copy' = << >>
    /\ UNCHANGED state_file
    /\ IF LoadRaises(state_file)
       THEN /\ visited' = {}
            /\ url_queue' = << >>
            /\ unfinished' = 0
            /\ fetch_data' = << >>
            /\ visit_data' = << >>
            /\ urls_data' = << >>
            /\ pc' = [w \in Workers |-> "unstarted"]
            /\ orch' = "load_failed"
       ELSE /\ visited' = Boot(state_file).visited
            /\ url_queue' = Boot(state_file).queue
            /\ unfinished' = Len(Boot(state_file).queue)
            /\ fetch_data' = Boot(state_file).fetch_data
            /\ visit_data' = Boot(state_file).visit_data
            /\ urls_data' = Boot(state_file).urls_data
            /\ pc' = [w \in Workers |-> "get"]
            /\ orch' = "join_queue"

\* ---------------------------------------------------------------- system
WorkerStep(w) ==
    \/ Get(w) \/ Timeout(w)
    \/ ClaimTest(w) \/ ClaimAdd(w)
    \/ Fetch(w)
    \/ ErrLock(w) \/ ErrAppend(w) \/ ErrDone(w)
    \/ RecLock(w) \/ RecAppend(w)
    \/ UrlLock(w) \/ UrlAppend(w)
    \/ OfferTest(w) \/ OfferPut(w)
    \/ VisitLock(w) \/ VisitAppend(w)
    \/ CkptTest(w) \/ SaveOpen(w) \/ SaveDump(w)
    \/ TaskDone(w)

OrchestratorStep ==
    \/ JoinQueue \/ JoinThreads \/ FinalSaveOpen \/ FinalSaveDump \/ Export

\* A crawl in which nothing fails but single fetches.
Crawl ==
    \/ \E w \in Workers : WorkerStep(w)
    \/ OrchestratorStep

Next ==
    \/ Crawl
    \/ \E w \in Workers : SaveFails(w)
    \/ FinalSaveFails
    \/ Restart

Spec == Init /\ [][Next]_vars

\* The crawl alone, under fair scheduling of its threads.
CrawlOnly == Init /\ [][Crawl]_vars
FairCrawl == CrawlOnly /\ WF_vars(Crawl)

\* ---------------------------------------------------------------- properties
\* A worker that has passed the test of line 97 and not yet marked its
\* entry done.
Claimed(w) ==
    pc[w] \notin { "get", "claim", "exited", "crashed", "unstarted" }

\* The URLs a table has records of.
UrlsOf(table) == { table[i][1] : i \in 1 .. Len(table) }

\* C1: in every reachable state, of a fresh crawl or of one resumed from a
\* checkpoint, the visited set holds at most max_pages URLs, and so does the
\* visited set of every checkpoint written: two workers never both take the
\* last budget slot.
C1_VisitedWithinBudget ==
    /\ Cardinality(visited) <= max_pages
    /\ state_file.kind = "state" =>
           Cardinality(state_file.visited) <= max_pages

\* C1's case: the budget is used up and a worker holds an entry that only
\* the budget test rejects.
C1_Witness ==
    /\ Cardinality(visited) = max_pages
    /\ \E w \in Workers :
          /\ pc[w] = "claim"
          /\ cur[w].url \notin visited
          /\ cur[w].depth <= max_depth

\* C2: fetch_data never holds two records with the same URL, and no two
\* workers are at work on the same claimed URL.
C2_OneFetchRecordPerUrl ==
    /\ \A u \in UrlsOf(fetch_data) : CountUrl(fetch_data, u) = 1
    /\ \A w1, w2 \in Workers :
          Claimed(w1) /\ Claimed(w2) /\ cur[w1].url = cur[w2].url => w1 = w2

\* C2's case: a worker has dequeued a second frontier entry of a URL that
\* was claimed before and already has its FetchRecord.
C2_Witness ==
    \E w \in Workers :
       /\ pc[w] = "claim"
       /\ cur[w].url \in visited
       /\ CountUrl(fetch_data, cur[w].url) = 1

\* C3, the states: every worker at work on a claimed entry has an entry of
\* depth <= max_depth, and every frontier entry has depth <= max_depth + 1.
C3_DepthBounded ==
    /\ \A w \in Workers : Claimed(w) => cur[w].depth <= max_depth
    /\ \A e \in Range(url_queue) : e.depth <= max_depth + 1

\* C3, the steps: a worker's step on a dequeued entry of depth > max_depth
\* marks the entry done, returns to the dequeue and changes neither the
\* visited set nor a table.
C3_DeepEntryDiscarded ==
    \A w \in Workers :
       ( /\ pc[w] = "claim"
         /\ cur[w].depth > max_depth
         /\ pc'[w] # pc[w]
         /\ restarts' = restarts )
       => /\ pc'[w] = "get"
          /\ unfinished' = unfinished - 1
          /\ UNCHANGED << visited, tables, url_queue >>

\* C3: no entry of depth > max_depth is fetched or gets a FetchRecord, it is
\* discarded at dequeue and marked done; every frontier entry has depth at
\* most max_depth + 1.
C3_NoFetchBeyondMaxDepth ==
    []C3_DepthBounded /\ [][C3_DeepEntryDiscarded]_vars

\* C3's case: a worker holds a dequeued entry one level below max_depth
\* while the budget still has room for it.
C3_Witness ==
    \E w \in Workers :
       /\ pc[w] = "claim"
       /\ cur[w].depth = max_depth + 1
       /\ cur[w].url \notin visited
       /\ Cardinality(visited) < max_pages

\* C4: every URL with a VisitRecord has exactly one FetchRecord, of status
\* 200.
C4_VisitHasOneFetch200 ==
    \A u \in UrlsOf(visit_data) :
       /\ CountUrl(fetch_data, u) = 1
       /\ << u, 200 >> \in Range(fetch_data)

\* C4's case: pages have VisitRecords while another fetched URL, whose
\* status is not 200, has none.
C4_Witness ==
    /\ Len(visit_data) >= 2
    /\ \E r \in Range(fetch_data) :
          /\ r[2] \notin { 200, Error }
          /\ r[1] \notin UrlsOf(visit_data)

\* C5: a crawl resumed from a checkpoint ends as an uninterrupted crawl
\* ends.  An uninterrupted crawl ends with exactly one FetchRecord for every
\* URL of its visited set (C5_UninterruptedResult, which holds of CrawlOnly),
\* so a resumed crawl has to end that way as well.
C5_ResumeSameResult ==
    orch = "done" =>
       \A u \in visited : CountUrl(fetch_data, u) = 1

\* What C5 compares with: the crawl that is never interrupted ends with one
\* FetchRecord per visited URL.
C5_UninterruptedResult ==
    (orch = "done" /\ restarts = 0) =>
       \A u \in visited : CountUrl(fetch_data, u) = 1

\* C6: whenever the process is interrupted, load_state of the next process
\* gets a complete snapshot (the previous one or the new one) or finds no
\* file, and never fails on a partially written file.
C6_SaveIsAtomic == orch # "load_failed"

\* C7: under fair scheduling, with no failure but those of single fetches,
\* the crawl terminates: the workers have exited, the final checkpoint is
\* complete with an empty pending queue, the tables are exported, and at most
\* max_pages FetchRecords exist.
C7_CrawlTerminates ==
    <>( /\ orch = "done"
        /\ \A w \in Workers : pc[w] = "exited"
        /\ unfinished = 0
        /\ url_queue = << >>
        /\ state_file = Snapshot(<< >>)
        /\ Len(fetch_data) <= max_pages )

\* C7's case: the crawl is over with the budget used up and an internal link
\* that was found and never fetched.
C7_Witness ==
    /\ orch = "done"
    /\ Cardinality(visited) = max_pages
    /\ Len(fetch_data) = max_pages
    /\ \E r \in Range(urls_data) : r[2] = "OK" /\ r[1] \notin visited

\* A worker at work on a claimed URL whose fetch raises.
OnError(w) == Claimed(w) /\ Web(site, cur[w].url).kind = "error"

\* C8, the states: a URL whose fetch raises has at most one FetchRecord, of
\* status "Error", and no VisitRecord; once it has its FetchRecord it is in
\* the visited set and no worker fetches it.
C8_ErrorRecordedOnce ==
    \A u \in UrlsOf(fetch_data) \cup { cur[w].url : w \in Workers } :
       Web(site, u).kind = "error" =>
          /\ CountUrl(fetch_data, u) <= 1
          /\ CountUrl(visit_data, u) = 0
          /\ \A r \in Range(fetch_data) : r[1] = u => r[2] = Error
          /\ CountUrl(fetch_data, u) = 1 =>
                /\ u \in visited
                /\ \A w \in Workers :
                      cur[w].url = u =>
                         pc[w] \in { "claim", "err_done", "get", "exited" }

\* C8, the steps: from the failed fetch to the next dequeue the worker
\* appends the one FetchRecord, marks the entry done, and changes nothing
\* else: no table but fetch_data, not the frontier, not the visited set.
C8_ErrorSteps ==
    \A w \in Workers :
       ( OnError(w) /\ pc[w] # "add" /\ pc'[w] # pc[w] /\ restarts' = restarts )
       => /\ pc[w] = "fetch" => pc'[w] = "err_lock"
          /\ pc[w] = "err_lock" => pc'[w] = "err_append"
          /\ pc[w] = "err_append" => pc'[w] = "err_done"
          /\ pc[w] = "err_done" => pc'[w] = "get"
          /\ pc[w] \in { "fetch", "err_lock", "err_append", "err_done" }
          /\ fetch_data' =
                IF pc[w] = "err_append"
                THEN Append(fetch_data, << cur[w].url, Error >>)
                ELSE fetch_data
          /\ unfinished' =
                IF pc[w] = "err_done" THEN unfinished - 1 ELSE unfinished
          /\ UNCHANGED << visited, url_queue, visit_data, urls_data >>

\* C8: a fetch that raises gives exactly one FetchRecord "Error", no
\* VisitRecord, no LinkRecord and no frontier entry; the URL stays visited
\* and is not fetched again; the worker marks the entry done and goes on.
C8_TransportErrorIsTerminal ==
    []C8_ErrorRecordedOnce /\ [][C8_ErrorSteps]_vars

\* C8's case: the FetchRecord "Error" is there and its worker is back at
\* the dequeue while the entry's URL sits in the visited set.
C8_Witness ==
    \E r \in Range(fetch_data) :
       /\ r[2] = Error
       /\ r[1] \in visited
       /\ \E w \in Workers : pc[w] = "get" /\ \A v \in Workers : cur[v].url # r[1]

\* C9: a failing save_state inside a worker does not end that worker.
C9_SaveFailureContained ==
    \A w \in Workers : pc[w] # "crashed"

RECURSIVE SumOutlinks(_)
SumOutlinks(table) ==
    IF table = << >> THEN 0 ELSE Head(table)[3] + SumOutlinks(Tail(table))

\* A worker between the FetchRecord of a page and its VisitRecord.
Extracting(w) ==
    pc[w] \in { "url_lock", "url_append", "offer", "put",
                "visit_lock", "visit_append" }

\* C10 as claimed: each page gets as many LinkRecords as its VisitRecord's
\* outlink_count says; so whenever no worker of an uninterrupted crawl is
\* between a page's FetchRecord and its VisitRecord, urls_data has as many
\* records as the outlink_counts of visit_data add up to.
C10_LinkRecordsEqualOutlinks ==
    (restarts = 0 /\ \A w \in Workers : ~Extracting(w)) =>
       Len(urls_data) = SumOutlinks(visit_data)

\* The tags with an href of the page a VisitRecord is of.
TagsOf(record) ==
    IF IsHtml(record[4]) THEN Web(site, record[1]).hrefs ELSE << >>

RECURSIVE SumTags(_)
SumTags(table) ==
    IF table = << >> THEN 0
    ELSE Len(TagsOf(Head(table))) + SumTags(Tail(table))

\* C10 as amended: a page gets one LinkRecord per tag with an href, repeats
\* included, and its outlink_count is the number of distinct resolved
\* targets of these tags.
C10_LinkRecordPerTag ==
    /\ \A r \in Range(visit_data) :
          r[3] = Cardinality({ urljoin(r[1], TagsOf(r)[i]) :
                                  i \in 1 .. Len(TagsOf(r)) })
    /\ (restarts = 0 /\ \A w \in Workers : ~Extracting(w)) =>
          Len(urls_data) = SumTags(visit_data)

\* C10's case: a page that repeats a link target has its VisitRecord and
\* its LinkRecords, and nobody is extracting links.
C10_Witness ==
    /\ restarts = 0
    /\ \A w \in Workers : ~Extracting(w)
    /\ \E r \in Range(visit_data) : r[3] > 0 /\ r[3] < Len(TagsOf(r))

\* The character groups that are host labels with their closing dot.
DottedLabels == { "www." }

\* The host is the site's root host or a subdomain of it.
OnSite(netloc) ==
    \/ netloc = LATIMES
    \/ /\ Len(netloc) > Len(LATIMES)
       /\ EndsWith(netloc, LATIMES)
       /\ netloc[Len(netloc) - Len(LATIMES)] \in DottedLabels

\* C11: the indicator of every LinkRecord is OK exactly when the resolved
\* URL's host is latimes.com or a subdomain of it, and N_OK for every other
\* host, also one that only ends with the same characters.
C11_IndicatorBySiteHost ==
    \A r \in Range(urls_data) : (r[2] = "OK") <=> OnSite(r[1].netloc)

\* C12: when save_state writes a snapshot, every entry a worker has taken
\* from the frontier and neither claimed nor discarded, and that it would
\* claim, is in the snapshot: its URL is in the snapshot's visited set or in
\* the snapshot's pending queue.
C12_SnapshotHoldsDequeuedEntries ==
    \A s \in Workers :
       pc[s] = "save_dump" =>
          \A w \in Workers :
             ( /\ pc[w] = "claim"
               /\ cur[w].depth <= max_depth
               /\ Cardinality(visited) < max_pages )
             => \/ cur[w].url \in visited
                \/ \E e \in Range(queue_copy) : e.url = cur[w].url

\* C13: every step of a process that adds an entry to the frontier adds it
\* while the visited set is below max_pages, and the entry's URL is not in
\* the visited set.
C13_OfferWithinBudget ==
    [][ ( restarts' = restarts /\ Len(url_queue') > Len(url_queue) )
        => /\ Cardinality(visited) < max_pages
           /\ url_queue'[Len(url_queue')].url \notin visited ]_vars

\* A worker that is fetching a claimed URL or extracting the links of its
\* page.
InFlight(w) == pc[w] = "fetch" \/ Extracting(w)

\* C14: a worker leaves its loop only when the frontier is empty and no
\* other worker is fetching or extracting links.
C14_ExitOnlyWhenDrained ==
    [][ \A w \in Workers :
          ( pc[w] = "get" /\ pc'[w] = "exited" )
          => /\ url_queue = << >>
             /\ \A v \in Workers : v # w => ~InFlight(v) ]_vars

\* C15: the visited set of a crawl that is neither interrupted nor hit by a
\* save failure grows past a positive multiple of the checkpoint interval
\* only after a checkpoint was saved at that size.
C15_CheckpointAtEveryMultiple ==
    [][ ( /\ Cardinality(visited) > 0
          /\ Cardinality(visited) % CheckpointInterval = 0
          /\ Cardinality(visited') > Cardinality(visited) )
        => /\ state_file.kind = "state"
           /\ Cardinality(state_file.visited) = Cardinality(visited) ]_vars

\* The fetch of u returns a status other than 200, or 200 with a content
\* type that is neither HTML nor allowed.
NoContent(u) ==
    /\ Web(site, u).kind = "response"
    /\ \/ Web(site, u).status # 200
       \/ /\ ContentType(Web(site, u).header) \notin allowed_types
          /\ ~IsHtml(ContentType(Web(site, u).header))

\* C16, the states: such a URL has at most one FetchRecord, with the numeric
\* status, and no VisitRecord.
C16_NoContentRecordedOnce ==
    \A u \in UrlsOf(fetch_data) \cup UrlsOf(visit_data) :
       NoContent(u) =>
          /\ CountUrl(fetch_data, u) = 1
          /\ << u, Web(site, u).status >> \in Range(fetch_data)
          /\ CountUrl(visit_data, u) = 0

\* C16, the steps: from the fetch to the next dequeue the worker appends the
\* one FetchRecord and changes no other table, nor the frontier, nor the
\* visited set.
C16_NoContentSteps ==
    \A w \in Workers :
       ( /\ Claimed(w) /\ NoContent(cur[w].url)
         /\ pc[w] # "add" /\ pc'[w] # pc[w] /\ restarts' = restarts )
       => /\ pc[w] = "fetch" => pc'[w] = "rec_lock"
          /\ pc[w] = "rec_lock" => pc'[w] = "rec_append"
          /\ pc[w] = "rec_append" => pc'[w] = "ckpt"
          /\ pc[w] = "ckpt" => pc'[w] \in { "save_open", "task_done" }
          /\ pc[w] = "task_done" => pc'[w] = "get"
          /\ fetch_data' =
                IF pc[w] = "rec_append"
                THEN Append(fetch_data,
                            << cur[w].url, Web(site, cur[w].url).status >>)
                ELSE fetch_data
          /\ UNCHANGED << visited, url_queue, visit_data, urls_data >>

\* C16: a claimed URL whose fetch returns a status other than 200, or 200
\* with an unsupported content type, gets exactly one FetchRecord with the
\* numeric status and nothing else: no VisitRecord, no LinkRecord, no
\* frontier entry.
C16_NoContentOnlyFetchRecord ==
    []C16_NoContentRecordedOnce /\ [][C16_NoContentSteps]_vars

\* C16's case: a URL fetched with status 200 and an unsupported content
\* type has its FetchRecord, and its worker has marked the entry done.
C16_Witness ==
    \E r \in Range(fetch_data) :
       /\ r[2] = 200
       /\ NoContent(r[1])
       /\ \A w \in Workers : cur[w].url # r[1]

\* A worker that has dequeued an entry (line 92) and has not yet called
\* task_done for it; a thread that died in save_state never calls it.
Holding(w) == pc[w] \notin { "get", "exited", "unstarted" }

\* C17, the states: the unfinished-task count is the number of queued
\* entries plus the number of workers holding a dequeued entry.
C17_UnfinishedCount ==
    unfinished = Len(url_queue) + Cardinality({ w \in Workers : Holding(w) })

\* C17, the steps: a worker that returns to the dequeue has called task_done
\* exactly once, and url_queue.join() returns only when the frontier is
\* empty and no worker holds an entry.
C17_DoneOncePerDequeue ==
    /\ \A w \in Workers :
          ( Holding(w) /\ pc'[w] = "get" /\ restarts' = restarts )
          => /\ pc[w] \in { "claim", "err_done", "task_done" }
             /\ unfinished' = unfinished - 1
    /\ ( orch = "join_queue" /\ orch' = "join_threads" )
       => /\ url_queue = << >>
          /\ \A w \in Workers : ~Holding(w)

\* C17: every dequeue on a path that completes is followed by exactly one
\* task_done, the unfinished-task count equals queued entries plus workers
\* holding an entry, and url_queue.join() returns only on an empty frontier
\* with no worker holding an entry.
C17_TaskAccounting ==
    []C17_UnfinishedCount /\ [][C17_DoneOncePerDequeue]_vars

\* C17's case: url_queue.join() has returned in a run that discarded an
\* entry, had a transport error and processed a page.
C17_Witness ==
    /\ orch = "join_threads"
    /\ restarts = 0
    /\ site = "news"
    /\ \E r \in Range(fetch_data) : r[2] = Error
    /\ visit_data # << >>
    /\ Cardinality(visited) = max_pages

\* C18: whenever the frontier is non-empty or a running worker holds an
\* entry, at least one worker thread has not ended.
C18_NoWorkStranded ==
    ( \/ url_queue # << >>
      \/ \E w \in Workers : Holding(w) /\ ~Ended(w) )
    => \E w \in Workers : ~Ended(w)

\* A worker at `with visited_lock:` (lines 96, 136, 153).
WaitsVisitedLock(w) == pc[w] \in { "claim", "offer", "ckpt" }

\* A worker at `with data_lock:` (lines 109, 114, 134, 146).
WaitsDataLock(w) == pc[w] \in { "err_lock", "rec_lock", "url_lock", "visit_lock" }

\* C19, the states: no worker holds both locks, save_state runs holding
\* visited_lock only, the put under visited_lock can always be taken, and
\* the holder of a lock always has a step it can take.
C19_LockDiscipline ==
    \A w \in Workers :
       /\ ~( visited_lock = w /\ data_lock = w )
       /\ pc[w] \in { "save_open", "save_dump" }
             => visited_lock = w /\ data_lock # w
       /\ pc[w] = "put" => visited_lock = w /\ ENABLED OfferPut(w)
       /\ ( visited_lock = w \/ data_lock = w ) => ENABLED WorkerStep(w)

\* C19: the workers cannot deadlock on their locks: no worker holds
\* visited_lock and data_lock together, the checkpoint save holds only
\* visited_lock, the frontier insert under visited_lock never blocks, and
\* under fair scheduling a worker waiting for a lock gets past the wait.
C19_NoLockDeadlock ==
    /\ []C19_LockDiscipline
    /\ \A w \in Workers :
          /\ WaitsVisitedLock(w) ~> ~WaitsVisitedLock(w)
          /\ WaitsDataLock(w) ~> ~WaitsDataLock(w)

\* C19's case: a worker waits for visited_lock to offer a link while
\* another worker holds it in save_state.
C19_Witness ==
    \E w, v \in Workers :
       /\ w # v
       /\ pc[w] = "offer"
       /\ pc[v] \in { "save_open", "save_dump" }
       /\ visited_lock = v

\* A worker between visited.add (line 100) and the append of the
\* FetchRecord of its URL (line 110 or 115).
FetchPending(w) ==
    pc[w] \in { "fetch", "err_lock", "err_append", "rec_lock", "rec_append" }

\* C20: in a crawl that is not interrupted, a visited URL has exactly one
\* FetchRecord, or none while a worker is between claiming it and recording
\* its fetch; once every worker has ended each visited URL has its one
\* record and len(fetch_data) = len(visited); and the final checkpoint is
\* written with an empty pending frontier.
C20_VisitedHaveFetchRecords ==
    restarts = 0 =>
       /\ \A u \in visited :
             \/ CountUrl(fetch_data, u) = 1
             \/ /\ CountUrl(fetch_data, u) = 0
                /\ \E w \in Workers : FetchPending(w) /\ cur[w].url = u
       /\ (\A w \in Workers : Ended(w)) =>
             /\ \A u \in visited : CountUrl(fetch_data, u) = 1
             /\ Len(fetch_data) = Cardinality(visited)
       /\ orch \in { "export", "done" } =>
             /\ \A w \in Workers : pc[w] = "exited"
             /\ state_file.kind = "state"
             /\ state_file.queue = << >>
             /\ state_file.visited = visited
             /\ state_file.fetch_data = fetch_data

\* C20's case: the uninterrupted crawl has written its final checkpoint,
\* after a fetch that raised and fetches that answered.
C20_Witness ==
    /\ orch = "export"
    /\ restarts = 0
    /\ \A w \in Workers : pc[w] = "exited"
    /\ Len(fetch_data) > 1
    /\ \E r \in Range(fetch_data) : r[2] = Error

====
